---------------------------- MODULE Spec2Model ----------------------------
(*************************************************************************)
(* State-machine model of the Flappy Bird game loop of flappy_bird.py:   *)
(* the Bird flight model, the Pipe obstacles, the scrolling Ground and   *)
(* the main() loop with its self-restart on death.                       *)
(*                                                                       *)
(* Numbers.  Bird.y, Bird.speed and Bird.height are Python floats whose  *)
(* values are always multiples of 0.5 (1.5*t^2 and 10.5*t are), so they  *)
(* are stored here in HALF PIXELS: y = 700 stands for 350.0, speed = -21 *)
(* stands for -10.5.  Every other quantity is an integer in pixels.      *)
(*                                                                       *)
(* Sprites.  The pixel masks of pygame are modelled as solid rectangles  *)
(* of the sprite's size (the three bird frames share one size).          *)
(*************************************************************************)
EXTENDS Integers, Sequences, FiniteSets, TLC

VARIABLES
    mode,      \* "Running": at the top of the while loop of main();
               \* "Ended": inside game_over_screen(), before main() re-enters;
               \* "Exited": after quit()
    op,        \* the operation that produced the current state
    bird,      \* the Bird object constructed by main()
    birds,     \* main.birds: the list of references to the live Bird objects
    ground,    \* main.ground: Ground record
    pipes,     \* main.pipes: sequence of Pipe records, in list order
    score,     \* main.score
    created,   \* number of Pipe objects constructed in this main() call
    passLog,   \* ids of the pipes that executed "add_pipe = True", in order
    reported,  \* the score argument of the running game_over_screen() call
    cause,     \* which test called game_over_screen(): "pipe", "ground", "ceiling"
    depth,     \* number of main() invocations on the call stack
    trial,     \* for an object exercised on its own: the argument it was
               \* constructed with and the number of calls made on it
    phases,    \* the phases of the loop body carried out by the last
               \* iteration of main(), in the order they were carried out
    off        \* the number of iterations of this session since it left
               \* the reference course (0 while it is on it)

vars == <<mode, op, bird, birds, ground, pipes, score, created, passLog,
          reported, cause, depth, trial, phases, off>>

-----------------------------------------------------------------------------
(* Program constants *)

SCREEN_WIDTH == 500
SCREEN_HEIGHT == 800
BirdImgW == 68
BirdImgH == 48
PipeImgW == 104
PipeImgH == 640
WIDTH == 672
MAX_ROTATION == 25
ROTATION_SPEED == 20
ANIMATION_TIME == 5
DISTANCE == 200
SPEED == 5
GROUND_SPEED == 5
GapMin == 50
GapMax == 475
JUMP_SPEED == -21
MAX_FALL == 32
UP_BOOST == 4
TILT_MARGIN == 100
MIN_ANGLE == -90
GLIDE_ANGLE == -80
BIRD_X == 230
BIRD_Y == 700
GROUND_Y == 730
SEED_X == 700
SPAWN_X == 600

(* Bounds of the model *)

MaxScore == 2
MaxDepth == 2
MaxPresses == 3
MaxOff == 1
MinJumpGap == 10
GapSamples == 2

-----------------------------------------------------------------------------
(* Helpers *)

Max(a, b) == IF a >= b THEN a ELSE b

\* Python round() of a float given in half units: round half to even
Round(h) ==
    LET q == h \div 2
    IN  IF h % 2 = 0 THEN q
        ELSE IF q % 2 = 0 THEN q ELSE q + 1

\* the gap heights random.randrange(50, 475) can return
Heights == GapMin .. (GapMax - 1)

-----------------------------------------------------------------------------
(* Bird *)

NewBird(x, y) ==
    [x |-> x, y |-> y, angle |-> 0, speed |-> 0, height |-> y,
     time |-> 0, image_count |-> 0, image |-> 0]

\* faulty variant of Jump: each call adds its impulse to the speed
JumpAdds(b) ==
    [b EXCEPT !.speed = @ + JUMP_SPEED, !.time = 0, !.height = b.y]

\* faulty variant of Jump: the elapsed-time counter is not reset
JumpKeepsClock(b) ==
    [b EXCEPT !.speed = JUMP_SPEED, !.height = b.y]

Jump(b) ==
    [b EXCEPT !.speed = JUMP_SPEED, !.time = 0, !.height = b.y]

RECURSIVE JumpN(_, _)
JumpN(b, k) == IF k = 0 THEN b ELSE JumpN(Jump(b), k - 1)

\* faulty variant of Displacement: the upward boost of 2 is forgotten
DisplacementNoBoost(t, speed) ==
    LET raw == 3 * t * t + speed * t
    IN  IF raw > MAX_FALL THEN MAX_FALL ELSE raw

\* displacement of Bird.move in half pixels, for the incremented time t
Displacement(t, speed) ==
    LET raw == 3 * t * t + speed * t
    IN  IF raw > MAX_FALL THEN MAX_FALL
        ELSE IF raw < 0 THEN raw - UP_BOOST
        ELSE raw

Tilt(angle, d, y, height) ==
    IF d < 0 \/ y < height + TILT_MARGIN
    THEN Max(angle, MAX_ROTATION)
    ELSE IF angle > MIN_ANGLE THEN angle - ROTATION_SPEED ELSE angle

Move(b) ==
    LET t == b.time + 1
        d == Displacement(t, b.speed)
        y == b.y + d
    IN  [b EXCEPT !.time = t, !.y = y, !.angle = Tilt(b.angle, d, y, b.height)]

Draw(b) ==
    LET c == b.image_count + 1
        b1 == IF c < ANIMATION_TIME THEN [b EXCEPT !.image_count = c, !.image = 0]
              ELSE IF c < ANIMATION_TIME * 2 THEN [b EXCEPT !.image_count = c, !.image = 1]
              ELSE IF c < ANIMATION_TIME * 3 THEN [b EXCEPT !.image_count = c, !.image = 2]
              ELSE IF c < ANIMATION_TIME * 4 THEN [b EXCEPT !.image_count = c, !.image = 1]
              ELSE IF c >= ANIMATION_TIME * 4 + 1 THEN [b EXCEPT !.image_count = 0, !.image = 0]
              ELSE [b EXCEPT !.image_count = c]
    IN  IF b1.angle <= GLIDE_ANGLE
        THEN [b1 EXCEPT !.image = 1, !.image_count = ANIMATION_TIME * 2]
        ELSE b1

-----------------------------------------------------------------------------
(* Pipe *)

\* faulty variant of NewPipe: the bottom pipe starts at the gap height
NewPipeNoGap(id, x, h) ==
    [id |-> id, x |-> x, height |-> h, top_pos |-> h - PipeImgH,
     bottom_pos |-> h, passed |-> FALSE]

NewPipe(id, x, h) ==
    [id |-> id, x |-> x, height |-> h, top_pos |-> h - PipeImgH,
     bottom_pos |-> h + DISTANCE, passed |-> FALSE]

\* faulty variant of PipeMove: the pipe moves to the right
PipeMoveRight(p) == [p EXCEPT !.x = p.x + SPEED]

PipeMove(p) == [p EXCEPT !.x = p.x - SPEED]

\* pygame Mask.overlap of two solid masks: the bird's w x h rectangle at the
\* origin against a PipeImgW x PipeImgH rectangle at offset (ox, oy)
Overlap(ox, oy) ==
    /\ ox < BirdImgW
    /\ ox + PipeImgW > 0
    /\ oy < BirdImgH
    /\ oy + PipeImgH > 0

\* faulty variant of Collide: only the top pipe is tested
CollideTopOnly(p, b) ==
    Overlap(p.x - b.x, p.top_pos - Round(b.y))

Collide(p, b) ==
    \/ Overlap(p.x - b.x, p.top_pos - Round(b.y))
    \/ Overlap(p.x - b.x, p.bottom_pos - Round(b.y))

OffScreen(p) == p.x + PipeImgW < 0

-----------------------------------------------------------------------------
(* Ground *)

NewGround(y) == [y |-> y, x1 |-> 0, x2 |-> WIDTH]

\* faulty variant of GroundMove: a tile that left the screen restarts at
\* WIDTH instead of behind the other tile
GroundMoveReset(g) ==
    LET a1 == g.x1 - GROUND_SPEED
        a2 == g.x2 - GROUND_SPEED
    IN  [g EXCEPT !.x1 = IF a1 + WIDTH < 0 THEN WIDTH ELSE a1,
                  !.x2 = IF a2 + WIDTH < 0 THEN WIDTH ELSE a2]

GroundMove(g) ==
    LET a1 == g.x1 - GROUND_SPEED
        a2 == g.x2 - GROUND_SPEED
        b1 == IF a1 + WIDTH < 0 THEN a2 + WIDTH ELSE a1
        b2 == IF a2 + WIDTH < 0 THEN b1 + WIDTH ELSE a2
    IN  [g EXCEPT !.x1 = b1, !.x2 = b2]

-----------------------------------------------------------------------------
(* The obstacle sweep of main(): the "for pipe in pipes" loop *)

\* faulty variant of PassedNow: no obstacle is ever marked
PassedNowNever(p, b) == FALSE

\* faulty variant of PassedNow: the passed flag is not consulted
PassedNowAgain(p, b) == b.x > p.x

\* faulty variant of PassedNow: a pipe level with the bird counts as passed
PassedNowOrLevel(p, b) == ~p.passed /\ b.x >= p.x

\* "not pipe.passed and bird.x > pipe.x"
PassedNow(p, b) == ~p.passed /\ b.x > p.x

\* accumulator of the loop: the list as mutated so far, add_pipe,
\* remove_pipes (ids), the ids that set add_pipe, and whether the loop was
\* left through the collision branch
SweepStart(ps) ==
    [hit |-> FALSE, pipes |-> ps, add_pipe |-> FALSE,
     remove_pipes |-> <<>>, log |-> <<>>]

\* one iteration of the loop body, on the pipe at index i
SweepPipe(acc, i, b) ==
    LET p == acc.pipes[i]
    IN  IF Collide(p, b)
        THEN [acc EXCEPT !.hit = TRUE]
        ELSE LET now == PassedNow(p, b)
                 p1 == IF now THEN [p EXCEPT !.passed = TRUE] ELSE p
                 p2 == PipeMove(p1)
             IN  [hit |-> FALSE,
                  pipes |-> [acc.pipes EXCEPT ![i] = p2],
                  add_pipe |-> (acc.add_pipe \/ now),
                  remove_pipes |-> IF OffScreen(p2)
                                   THEN Append(acc.remove_pipes, p2.id)
                                   ELSE acc.remove_pipes,
                  log |-> IF now THEN Append(acc.log, p2.id) ELSE acc.log]

RECURSIVE SweepFrom(_, _, _)
SweepFrom(acc, i, b) ==
    IF i > Len(acc.pipes) \/ acc.hit THEN acc
    ELSE SweepFrom(SweepPipe(acc, i, b), i + 1, b)

Sweep(ps, b) == SweepFrom(SweepStart(ps), 1, b)

\* faulty variant of ScoreAfter: the sign of the increment is wrong
ScoreAfterDown(sc, add) == IF add THEN sc - 1 ELSE sc

\* "if add_pipe: score += 1"
ScoreAfter(sc, add) == IF add THEN sc + 1 ELSE sc

\* faulty variant of Spawn: the new pipe is inserted at the head of the list
SpawnFront(ps, add, id, h) ==
    IF add THEN <<NewPipe(id, SPAWN_X, h)>> \o ps ELSE ps

\* "if add_pipe: pipes.append(Pipe(600))"
Spawn(ps, add, id, h) ==
    IF add THEN Append(ps, NewPipe(id, SPAWN_X, h)) ELSE ps

\* "for pipe in remove_pipes: pipes.remove(pipe)"
Retire(ps, rem) ==
    SelectSeq(ps, LAMBDA p : \A k \in DOMAIN rem : rem[k] # p.id)

-----------------------------------------------------------------------------
(* The bounds test of main() *)

\* faulty variant of OutOfBounds: the ground test is missing
OutOfBoundsNoGround(b, g) == b.y < 0

\* faulty variant of OutOfBounds: the ceiling test is missing
OutOfBoundsNoCeiling(b, g) == b.y + 2 * BirdImgH > 2 * g.y

BelowGround(b, g) == b.y + 2 * BirdImgH > 2 * g.y

AboveScreen(b) == b.y < 0

OutOfBounds(b, g) == BelowGround(b, g) \/ AboveScreen(b)

-----------------------------------------------------------------------------
(* One iteration of the while loop of main(), with k jump presses polled.  *)
(* An outcome names the value of every variable after the iteration.       *)

\* faulty variant of AfterSweep: the score is counted but no pipe is spawned
AfterSweepNoSpawn(sw, sc, cr, h) ==
    [pipes |-> Retire(sw.pipes, sw.remove_pipes),
     score |-> ScoreAfter(sc, sw.add_pipe),
     created |-> cr]

\* the part of the iteration after the "for pipe in pipes" loop ended
\* without a collision: score, spawn, retirement
AfterSweep(sw, sc, cr, h) ==
    [pipes |-> Retire(Spawn(sw.pipes, sw.add_pipe, cr, h), sw.remove_pipes),
     score |-> ScoreAfter(sc, sw.add_pipe),
     created |-> IF sw.add_pipe THEN cr + 1 ELSE cr]

\* the phases of the loop body in the order main() carries them out; the
\* iteration is abandoned after the sweep when a pipe was hit, and after the
\* boundary test when the bird left the screen
LoopPhases == <<"input", "body", "ground", "sweep", "bounds", "render">>

PhasesDone(hit, out) ==
    IF hit THEN SubSeq(LoopPhases, 1, 4)
    ELSE IF out THEN SubSeq(LoopPhases, 1, 5)
    ELSE LoopPhases

\* the state after the moves (b2, g2), the sweep (sw) and its aftermath (a)
Outcome(b2, g2, sw, a) ==
    IF sw.hit
    THEN [mode |-> "Ended", bird |-> b2, birds |-> <<>>, ground |-> g2,
          pipes |-> sw.pipes, score |-> score, created |-> created,
          passLog |-> passLog \o sw.log, reported |-> score,
          cause |-> "pipe", phases |-> PhasesDone(TRUE, FALSE)]
    ELSE IF OutOfBounds(b2, g2)
    THEN [mode |-> "Ended", bird |-> b2, birds |-> <<>>, ground |-> g2,
          pipes |-> a.pipes, score |-> a.score, created |-> a.created,
          passLog |-> passLog \o sw.log, reported |-> a.score,
          cause |-> IF BelowGround(b2, g2) THEN "ground" ELSE "ceiling",
          phases |-> PhasesDone(FALSE, TRUE)]
    ELSE [mode |-> "Running", bird |-> Draw(b2), birds |-> birds,
          ground |-> g2, pipes |-> a.pipes, score |-> a.score,
          created |-> a.created, passLog |-> passLog \o sw.log,
          reported |-> -1, cause |-> "none",
          phases |-> PhasesDone(FALSE, FALSE)]

\* the gap heights random.randrange can return in this iteration: a Pipe is
\* constructed, and its height drawn, only when add_pipe is set
Draws(sw) == IF sw.add_pipe /\ ~sw.hit THEN Heights ELSE {GapMin}

\* the states the iteration can end in after the sweep sw
Swept(b2, g2, sw) ==
    { Outcome(b2, g2, sw, AfterSweep(sw, score, created, h)) : h \in Draws(sw) }

\* the states the iteration can end in after the moves
Moved(b2, g2) == Swept(b2, g2, Sweep(pipes, b2))

\* the states the iteration can end in when k jump presses are polled
TickOutcomes(k) == Moved(Move(JumpN(bird, k)), GroundMove(ground))

-----------------------------------------------------------------------------
(* main(): construction of a session, the loop, the restart, quit *)

\* the locals of a fresh main() call, with h the gap height drawn by Pipe(700)
Session(h) ==
    [bird |-> NewBird(BIRD_X, BIRD_Y), birds |-> <<"bird">>,
     ground |-> NewGround(GROUND_Y), pipes |-> <<NewPipe(0, SEED_X, h)>>,
     score |-> 0, created |-> 1]

\* no object is exercised on its own
NoTrial == [arg |-> 0, n |-> 0]

Init ==
    \E h \in Heights :
        /\ mode = "Running"
        /\ op = "main"
        /\ bird = Session(h).bird
        /\ birds = Session(h).birds
        /\ ground = Session(h).ground
        /\ pipes = Session(h).pipes
        /\ score = Session(h).score
        /\ created = Session(h).created
        /\ passLog = <<>>
        /\ reported = -1
        /\ cause = "none"
        /\ depth = 1
        /\ trial = NoTrial
        /\ phases = <<>>
        /\ off = 0

-----------------------------------------------------------------------------
(* The exploration horizon.  A session has some 10^5 body states for each  *)
(* position of the stream and 425 heights for each pipe, so sessions are   *)
(* followed to any depth along a reference course and for MaxOff further   *)
(* iterations, with any input and any draw, from every state of it.  The   *)
(* course is the run without a jump, whatever heights are drawn, and the   *)
(* runs whose jumps are at least MinJumpGap iterations apart and whose     *)
(* pipes have one of GapSamples heights.  Nothing here changes what an     *)
(* iteration does: off only counts the iterations made off the course.     *)

\* the gap heights of the reference course: GapSamples values spread over
\* Heights, both ends included
CourseHeights ==
    { GapMin + (i * (GapMax - 1 - GapMin)) \div (GapSamples - 1) :
        i \in 0 .. (GapSamples - 1) }

OnCourse(ps) == \A i \in DOMAIN ps : ps[i].height \in CourseHeights

\* the iteration with k presses that ends in o stays on the course
Steady(k, o) ==
    \/ k = 0 /\ bird.speed = 0
    \/ /\ k > 0 => bird.time >= MinJumpGap
       /\ OnCourse(pipes)
       /\ OnCourse(o.pipes)

OffAfter(k, o) == IF off = 0 /\ Steady(k, o) THEN 0 ELSE off + 1

-----------------------------------------------------------------------------

\* the iteration ends in the outcome o
EndTick(o) ==
    /\ mode' = o.mode
    /\ op' = "tick"
    /\ bird' = o.bird
    /\ birds' = o.birds
    /\ ground' = o.ground
    /\ pipes' = o.pipes
    /\ score' = o.score
    /\ created' = o.created
    /\ passLog' = o.passLog
    /\ reported' = o.reported
    /\ cause' = o.cause
    /\ depth' = depth
    /\ trial' = trial
    /\ phases' = o.phases

\* one pass through the while loop body, k jump presses polled
Tick(k) ==
    /\ mode = "Running"
    /\ score < MaxScore
    /\ off < MaxOff
    /\ \E o \in TickOutcomes(k) :
           /\ EndTick(o)
           /\ off' = OffAfter(k, o)

\* faulty variant of Restart: the score of the ended session is kept
RestartKeepsScore(h) ==
    /\ mode = "Ended"
    /\ depth < MaxDepth
    /\ mode' = "Running"
    /\ op' = "main"
    /\ bird' = Session(h).bird
    /\ birds' = Session(h).birds
    /\ ground' = Session(h).ground
    /\ pipes' = Session(h).pipes
    /\ score' = score
    /\ created' = Session(h).created
    /\ passLog' = <<>>
    /\ reported' = -1
    /\ cause' = "none"
    /\ depth' = depth + 1
    /\ trial' = trial
    /\ phases' = <<>>
    /\ off' = 0

\* game_over_screen() returns and main() is entered again
Restart(h) ==
    /\ mode = "Ended"
    /\ depth < MaxDepth
    /\ mode' = "Running"
    /\ op' = "main"
    /\ bird' = Session(h).bird
    /\ birds' = Session(h).birds
    /\ ground' = Session(h).ground
    /\ pipes' = Session(h).pipes
    /\ score' = Session(h).score
    /\ created' = Session(h).created
    /\ passLog' = <<>>
    /\ reported' = -1
    /\ cause' = "none"
    /\ depth' = depth + 1
    /\ trial' = trial
    /\ phases' = <<>>
    /\ off' = 0

\* a QUIT event is polled: pygame.quit(); quit().  The process is gone, and
\* with it every local of every main() call on the stack.
Quit ==
    /\ mode = "Running"
    /\ mode' = "Exited"
    /\ op' = "quit"
    /\ bird' = NewBird(BIRD_X, BIRD_Y)
    /\ birds' = <<>>
    /\ ground' = NewGround(GROUND_Y)
    /\ pipes' = <<>>
    /\ score' = 0
    /\ created' = 0
    /\ passLog' = <<>>
    /\ reported' = -1
    /\ cause' = "none"
    /\ depth' = 0
    /\ trial' = NoTrial
    /\ phases' = <<>>
    /\ off' = 0

TickStep == \E k \in 0 .. MaxPresses : Tick(k)

RestartStep == \E h \in Heights : Restart(h)

Next == TickStep \/ RestartStep \/ Quit

Spec == Init /\ [][Next]_vars

-----------------------------------------------------------------------------
(* The Bird alone: main() has constructed the Bird and the Ground and is   *)
(* about to construct the first Pipe; any sequence of jump() and move()    *)
(* calls is made on the Bird while it is inside the screen.                *)

BirdInit ==
    /\ mode = "Running"
    /\ op = "Bird"
    /\ bird = NewBird(BIRD_X, BIRD_Y)
    /\ birds = <<"bird">>
    /\ ground = NewGround(GROUND_Y)
    /\ pipes = <<>>
    /\ score = 0
    /\ created = 0
    /\ passLog = <<>>
    /\ reported = -1
    /\ cause = "none"
    /\ depth = 1
    /\ trial = NoTrial
    /\ phases = <<>>
    /\ off = 0

JumpStep ==
    /\ mode = "Running"
    /\ bird' = Jump(bird)
    /\ op' = "jump"
    /\ UNCHANGED <<mode, birds, ground, pipes, score, created, passLog,
                   reported, cause, depth, trial, phases, off>>

MoveStep ==
    /\ mode = "Running"
    /\ ~OutOfBounds(bird, ground)
    /\ bird' = Move(bird)
    /\ op' = "move"
    /\ UNCHANGED <<mode, birds, ground, pipes, score, created, passLog,
                   reported, cause, depth, trial, phases, off>>

BirdNext == JumpStep \/ MoveStep

BirdSpec == BirdInit /\ [][BirdNext]_vars

-----------------------------------------------------------------------------
(* Properties *)

\* a step of the while loop of main() that did not quit
IsTick == mode = "Running" /\ op' = "tick"

Ids(ps) == { ps[i].id : i \in DOMAIN ps }

\* C1: boundary termination.  At the end of every tick in which the session
\* is still Running, the body is inside the screen: 0 <= y and
\* y + sprite height <= 730 (a tick whose advanced body is outside ends the
\* session in that same tick).
C1_BoundaryTermination ==
    mode = "Running" =>
        /\ 0 <= bird.y
        /\ bird.y + 2 * BirdImgH <= 2 * 730

\* a session ended through the ceiling test, the body above the screen
C1_Witness ==
    /\ mode = "Ended"
    /\ cause = "ceiling"
    /\ bird.y < 0

\* the region of the screen the body occupies meets the pipe image drawn
\* with its top edge at y = top, stated on the rectangles themselves
RegionMeets(b, px, top) ==
    /\ px < b.x + BirdImgW
    /\ b.x < px + PipeImgW
    /\ top < Round(b.y) + BirdImgH
    /\ Round(b.y) < top + PipeImgH

\* C2: collision termination.  If in a tick the advanced body overlaps the
\* top or bottom pipe of an obstacle at the position the obstacle has when
\* it is examined, the session is Ended in that tick, and the score
\* reported is the score held before the tick: no increment and no spawn.
C2_CollisionTermination ==
    [][ (IsTick /\ \E i \in DOMAIN pipes :
                      \/ RegionMeets(bird', pipes[i].x, pipes[i].height - PipeImgH)
                      \/ RegionMeets(bird', pipes[i].x, pipes[i].height + 200))
        => /\ mode' = "Ended"
           /\ cause' = "pipe"
           /\ reported' = score
           /\ score' = score
           /\ created' = created
           /\ Ids(pipes') = Ids(pipes) ]_vars

\* a session ended by a pipe of the obstacle the body had just moved past:
\* the pass condition held in the tick, the score was left alone
C2_Witness ==
    /\ mode = "Ended"
    /\ cause = "pipe"
    /\ reported = score
    /\ \E i \in DOMAIN pipes :
           /\ ~pipes[i].passed
           /\ pipes[i].x < bird.x
           /\ \/ Round(bird.y) + BirdImgH > pipes[i].bottom_pos
              \/ Round(bird.y) < pipes[i].height

\* the state main() constructs
FreshSession ==
    /\ mode = "Running"
    /\ score = 0
    /\ bird = [x |-> 230, y |-> 2 * 350, angle |-> 0, speed |-> 0,
               height |-> 2 * 350, time |-> 0, image_count |-> 0, image |-> 0]
    /\ birds = <<"bird">>
    /\ Len(pipes) = 1
    /\ pipes[1].x = 700
    /\ ~pipes[1].passed
    /\ ground = [y |-> 730, x1 |-> 0, x2 |-> WIDTH]
    /\ passLog = <<>>
    /\ created = 1

\* C3: restart resets everything.  The step out of Ended leads to exactly
\* the initial state: score 0, body at (230, 350) with time, impulse, angle
\* and animation counter 0, one un-passed obstacle at x = 700, ground at
\* y = 730 with tile offsets (0, WIDTH); nothing of the ended session stays.
C3_RestartResets ==
    [][ mode = "Ended" => FreshSession' ]_vars

\* a session built by a restart
C3_Witness ==
    /\ depth = 2
    /\ op = "main"
    /\ FreshSession

\* C4: scoring on pass.  In a tick that does not end the session: if some
\* obstacle is un-passed with body.x > obstacle.x when examined, the score
\* is exactly 1 higher and exactly one new un-passed obstacle with x = 600
\* is at the end of the stream; otherwise the score is unchanged and no
\* obstacle is spawned.
C4_ScoringOnPass ==
    [][ (IsTick /\ mode' = "Running")
        => IF \E i \in DOMAIN pipes : ~pipes[i].passed /\ bird.x > pipes[i].x
           THEN /\ score' = score + 1
                /\ Cardinality(Ids(pipes') \ Ids(pipes)) = 1
                /\ Len(pipes') >= 1
                /\ pipes'[Len(pipes')].id \notin Ids(pipes)
                /\ pipes'[Len(pipes')].x = 600
                /\ ~pipes'[Len(pipes')].passed
           ELSE /\ score' = score
                /\ Ids(pipes') \subseteq Ids(pipes) ]_vars

\* the end of the tick in which the seed obstacle was passed
C4_Witness ==
    /\ mode = "Running"
    /\ op = "tick"
    /\ score = 1
    /\ Len(pipes) = 2
    /\ pipes[1].passed
    /\ pipes[2].x = 600

\* C5: sticky passed flag.  Over a tick, an obstacle whose passed flag is
\* true keeps it true; no obstacle sets add_pipe twice; and the score
\* increments and the spawns of a tick are at most the obstacles that became
\* passed in it, so each obstacle causes at most one of each.
C5_StickyPassed ==
    [][ IsTick
        => /\ \A i \in DOMAIN pipes : \A j \in DOMAIN pipes' :
                  (pipes[i].id = pipes'[j].id /\ pipes[i].passed)
                      => pipes'[j].passed
           /\ \A i \in DOMAIN passLog' : \A j \in DOMAIN passLog' :
                  i # j => passLog'[i] # passLog'[j]
           /\ score' - score <= Len(passLog') - Len(passLog)
           /\ created' - created <= Len(passLog') - Len(passLog) ]_vars

\* an obstacle that was passed on an earlier tick and has been examined again
C5_Witness ==
    /\ mode = "Running"
    /\ op = "tick"
    /\ score = 1
    /\ pipes[1].passed
    /\ pipes[1].x < 200

\* C6: score monotonicity.  A tick changes the score by 0 or a positive
\* amount; while the process lives, the only step in which the score gets
\* smaller is the restart after Ended, which sets it to 0.
C6_ScoreMonotone ==
    [][ /\ IsTick => score' >= score
        /\ (score' < score /\ mode' # "Exited")
               => (mode = "Ended" /\ op' = "main" /\ score' = 0) ]_vars

\* a session that scored has ended and is about to be restarted
C6_Witness ==
    /\ mode = "Ended"
    /\ score >= 1
    /\ depth < MaxDepth

\* C7: obstacle stream shape.  In every state of a Running session the
\* stream is non-empty and in insertion order with strictly increasing x.
C7_StreamShape ==
    mode = "Running" =>
        /\ Len(pipes) >= 1
        /\ \A i \in 1 .. (Len(pipes) - 1) :
               /\ pipes[i].x < pipes[i + 1].x
               /\ pipes[i].id < pipes[i + 1].id

\* the seed obstacle has been retired and its successors are in the stream
C7_Witness ==
    /\ mode = "Running"
    /\ Len(pipes) = 2
    /\ pipes[1].id = 1
    /\ pipes[2].id = 2

\* the obstacles of the stream whose passed flag a tick turns from false to
\* true
Passing ==
    { i \in DOMAIN pipes :
        /\ ~pipes[i].passed
        /\ \E j \in DOMAIN pipes' :
               pipes'[j].id = pipes[i].id /\ pipes'[j].passed }

C9_JumpEffect ==
    [][ /\ ENABLED JumpStep
        /\ op' = "jump"
              => /\ bird'.speed = -21
                 /\ bird'.time = 0
                 /\ bird'.height = bird.y
                 /\ bird'.x = bird.x
                 /\ bird'.y = bird.y
                 /\ bird'.angle = bird.angle
                 /\ bird'.image_count = bird.image_count
                 /\ bird'.image = bird.image ]_vars

\* a jump out of a dive, away from the start height
C9_Witness ==
    /\ op = "jump"
    /\ bird.time = 0
    /\ bird.angle < 0
    /\ bird.height > BIRD_Y

\* the displacements of the ten advances after a jump, in pixels
JumpArc == <<-11, -17, -20, -20, -17, -11, 0, 12, 16, 16>>

\* C10: displacement formula.  advance() increments the elapsed time t by 1
\* and adds to y the displacement d of raw = 1.5*t^2 + v0*t: 16 if raw > 16,
\* raw - 2 if raw < 0, raw otherwise; after a jump the displacements are
\* -11, -17, -20, -20, -17, -11, 0, 12, 16, 16.  (Both sides are doubled.)
C10_Displacement ==
    [][ op' = "move"
        => LET t == bird.time + 1
               raw2 == 3 * t * t + bird.speed * t
               d2 == IF raw2 > 2 * 16 THEN 2 * 16
                     ELSE IF raw2 < 0 THEN raw2 - 2 * 2
                     ELSE raw2
           IN  /\ bird.speed \in {0, -21}
               /\ bird'.time = t
               /\ bird'.y = bird.y + d2
               /\ (bird.speed = -21 /\ t <= Len(JumpArc))
                      => bird'.y - bird.y = 2 * JumpArc[t] ]_vars

\* the tenth advance after a jump
C10_Witness ==
    /\ op = "move"
    /\ bird.speed = JUMP_SPEED
    /\ bird.time = 10

\* C11: angle clamp.  After any sequence of jump() and advance() calls on a
\* new body the tilt angle stays within [-90, 25].
C11_AngleClamp ==
    /\ bird.angle >= MIN_ANGLE
    /\ bird.angle <= MAX_ROTATION

\* --------------------------------------------------------------------------
\* A single Pipe exercised on its own: constructed at x with a random gap
\* height drawn from the whole range of randrange(50, 475), then moved, or
\* run through the body of the obstacle loop of main() against the bird at
\* its start position.

\* number of move() calls followed on one pipe
MaxMoves == 40

\* constructor arguments: main()'s two and the unit test's
PipeXs == {SEED_X, SPAWN_X, 300}

\* random.randrange(50, 475)
SetHeight == Heights

PipeInit ==
    \E x \in PipeXs, h \in SetHeight :
        /\ mode = "Running"
        /\ op = "Pipe"
        /\ bird = NewBird(BIRD_X, BIRD_Y)
        /\ birds = <<"bird">>
        /\ ground = NewGround(GROUND_Y)
        /\ pipes = <<NewPipe(0, x, h)>>
        /\ score = 0
        /\ created = 1
        /\ passLog = <<>>
        /\ reported = -1
        /\ cause = "none"
        /\ depth = 1
        /\ trial = [arg |-> x, n |-> 0]
        /\ phases = <<>>
        /\ off = 0

\* pipe.set_height() on the pipe as constructed (tests/test_game.py)
PipeSetHeight ==
    /\ mode = "Running"
    /\ trial.n = 0
    /\ \E h \in SetHeight :
           pipes' = <<NewPipe(pipes[1].id, pipes[1].x, h)>>
    /\ op' = "set_height"
    /\ UNCHANGED <<mode, bird, birds, ground, score, created, passLog,
                   reported, cause, depth, trial, phases, off>>

\* pipe.move()
PipeMoveStep ==
    /\ mode = "Running"
    /\ trial.n < MaxMoves
    /\ pipes' = <<PipeMove(pipes[1])>>
    /\ op' = "move"
    /\ trial' = [trial EXCEPT !.n = @ + 1]
    /\ UNCHANGED <<mode, bird, birds, ground, score, created, passLog,
                   reported, cause, depth, phases, off>>

\* the body of the obstacle loop of main() for this pipe: the collision
\* test, on a hit the bird is popped and the game-over screen is shown with
\* the score, the session being over; otherwise the pass marking, which is
\* recorded, and move()
PipeLoopStep ==
    /\ mode = "Running"
    /\ trial.n < MaxMoves
    /\ LET s == Sweep(pipes, bird)
       IN  /\ pipes' = s.pipes
           /\ passLog' = passLog \o s.log
           /\ op' = IF s.hit THEN "collide" ELSE "loop"
           /\ mode' = IF s.hit THEN "Ended" ELSE mode
           /\ birds' = IF s.hit THEN <<>> ELSE birds
           /\ reported' = IF s.hit THEN score ELSE reported
           /\ cause' = IF s.hit THEN "pipe" ELSE cause
           /\ trial' = [trial EXCEPT !.n = IF s.hit THEN @ ELSE @ + 1]
    /\ UNCHANGED <<bird, ground, score, created, depth, phases, off>>

PipeNext == PipeSetHeight \/ PipeMoveStep \/ PipeLoopStep

PipeSpec == PipeInit /\ [][PipeNext]_vars

\* C12: gap geometry.  Every obstacle has an integer gap height h with
\* 50 <= h < 475, its top pipe drawn at h - (pipe image height) and its
\* bottom pipe at h + 200, and no operation of a tick (advance, collision
\* test, pass marking) changes any of the three.
C12_GapGeometry ==
    [][ /\ \A q \in {pipes[1], pipes'[1]} :
               /\ q.height \in GapMin .. (GapMax - 1)
               /\ q.top_pos = q.height - PipeImgH
               /\ q.bottom_pos = q.height + DISTANCE
        /\ op' \in {"move", "loop", "collide"}
               => /\ pipes'[1].height = pipes[1].height
                  /\ pipes'[1].top_pos = pipes[1].top_pos
                  /\ pipes'[1].bottom_pos = pipes[1].bottom_pos ]_vars

\* a pipe that went through the loop body, was marked passed and moved
C12_Witness ==
    /\ op = "loop"
    /\ pipes[1].passed
    /\ pipes[1].x < bird.x
    /\ pipes[1].height = 200
    /\ pipes[1].bottom_pos = 400

\* C13: as the unit test asserts, after any call of set_height() the gap
\* height is strictly greater than 50 and strictly less than 475, for every
\* value the random draw can produce.
C13_StrictRange ==
    op = "set_height" => /\ pipes[1].height > GapMin
                         /\ pipes[1].height < GapMax

\* C14: obstacle advance.  Each move() decreases the obstacle's x by exactly
\* 5 and changes nothing else, so after n calls x is 5n below the x the
\* obstacle was constructed with (200 below after 40 calls), and the
\* constructor's x is kept until the first advance.
C14_ObstacleAdvance ==
    [][ /\ op' = "move" => pipes'[1] = [pipes[1] EXCEPT !.x = @ - 5]
        /\ pipes[1].x = trial.arg - 5 * trial.n
        /\ pipes'[1].x = trial'.arg - 5 * trial'.n
        /\ trial'.n = 0 => pipes'[1].x = trial'.arg
        /\ trial'.n = 40 => pipes'[1].x = trial'.arg - 200 ]_vars

\* the seed obstacle of main() after 40 calls of move()
C14_Witness ==
    /\ op = "move"
    /\ trial = [arg |-> SEED_X, n |-> 40]
    /\ pipes[1].x = 500

\* --------------------------------------------------------------------------
\* The Ground exercised on its own: constructed as main() does, then moved
\* any number of times.

GroundInit ==
    \E h \in Heights :
        /\ mode = "Running"
        /\ op = "Ground"
        /\ bird = NewBird(BIRD_X, BIRD_Y)
        /\ birds = <<"bird">>
        /\ ground = NewGround(GROUND_Y)
        /\ pipes = <<NewPipe(0, SEED_X, h)>>
        /\ score = 0
        /\ created = 1
        /\ passLog = <<>>
        /\ reported = -1
        /\ cause = "none"
        /\ depth = 1
        /\ trial = [arg |-> GROUND_Y, n |-> 0]
        /\ phases = <<>>
        /\ off = 0

\* ground.move()
GroundStep ==
    /\ ground' = GroundMove(ground)
    /\ op' = "move"
    /\ UNCHANGED <<mode, bird, birds, pipes, score, created, passLog,
                   reported, cause, depth, trial, phases, off>>

GroundNext == GroundStep

GroundSpec == GroundInit /\ [][GroundNext]_vars

Min(a, b) == IF a <= b THEN a ELSE b

\* C15: ground belt.  From x1 = 0, x2 = WIDTH, with WIDTH at least the
\* screen width 500, after every move(): the two tiles are WIDTH apart, the
\* left one starts at or left of 0 and the pair reaches to 500 or beyond
\* (the screen is covered), and each tile position is within
\* [-WIDTH, WIDTH].
C15_GroundBelt ==
    op = "move"
        => LET lo == Min(ground.x1, ground.x2)
               hi == Max(ground.x1, ground.x2)
           IN  /\ WIDTH >= SCREEN_WIDTH
               /\ hi - lo = WIDTH
               /\ lo <= 0
               /\ lo + 2 * WIDTH >= SCREEN_WIDTH
               /\ \A x \in {ground.x1, ground.x2} : -WIDTH <= x /\ x <= WIDTH

\* the first tile has left the screen and restarted behind the second, which
\* now sits exactly one tile width left of the screen edge
C15_Witness ==
    /\ op = "move"
    /\ ground.x2 = -WIDTH
    /\ ground.x1 = 0

\* C16: gravity-only run.  In a session in which no jump has been polled
\* (the impulse is still 0, so the elapsed time counts the session's ticks)
\* the body's y increases on every tick and the session is Ended after no
\* more than 26 ticks, by the ground and neither by a pipe nor by the
\* ceiling, with score 0.
C16_GravityOnly ==
    [][ (IsTick /\ bird'.speed = 0)
        => /\ bird'.y > bird.y
           /\ bird'.time <= 26
           /\ bird'.time = 26 => mode' = "Ended"
           /\ mode' = "Ended" => /\ cause' = "ground"
                                 /\ reported' = 0
                                 /\ score' = 0 ]_vars

\* the tick on which the falling body reaches the ground
C16_Witness ==
    /\ mode = "Ended"
    /\ bird.speed = 0
    /\ bird.time = 23
    /\ cause = "ground"
    /\ reported = 0

\* a comes before b in the sequence of phases ph
Before(ph, a, b) ==
    \E i \in DOMAIN ph : \E j \in DOMAIN ph : i < j /\ ph[i] = a /\ ph[j] = b

\* C17: jump presses collapse, and the order of a tick.  From every Running
\* state, a tick that polls k >= 2 jump presses ends in the same states as a
\* tick that polls one (whatever gap height a spawn in that tick draws).
\* In every tick made, the input is applied before the body is advanced,
\* the body before the ground, the ground before the obstacle sweep, and
\* the boundary test, when the tick gets to it, before rendering; a tick
\* that ends the session renders nothing.  What can be seen of the order in
\* the state agrees: after a tick with a press the elapsed time is 1 and the
\* body is one displacement, 11 pixels, above where the press found it; the
\* ground has moved in a tick the sweep ends by a collision; the sweep tests
\* the advanced body; a tick ended by the boundary test leaves the
\* animation untouched, and a rendered body is always inside the bounds.
C17_PressesCollapse ==
    /\ op = "tick"
           => /\ Before(phases, "input", "body")
              /\ Before(phases, "body", "ground")
              /\ Before(phases, "ground", "sweep")
              /\ mode = "Running" => Before(phases, "bounds", "render")
              /\ mode = "Ended" => ~Before(phases, "input", "render")
              /\ cause \in {"ground", "ceiling"}
                     => Before(phases, "sweep", "bounds")
    /\ mode = "Running"
           => \A one \in {TickOutcomes(1)} :
                  /\ \A k \in 2 .. MaxPresses : TickOutcomes(k) = one
                  /\ \A o \in one :
                         /\ o.bird.time = 1
                         /\ o.bird.height = bird.y
                         /\ o.bird.y = bird.y - 2 * 11
                         /\ o.ground = GroundMove(ground)
                         /\ o.cause = "pipe"
                                => \E i \in DOMAIN o.pipes :
                                       Collide(o.pipes[i], o.bird)
                         /\ o.mode = "Ended"
                                => /\ o.bird.image_count = bird.image_count
                                   /\ o.bird.image = bird.image
                         /\ o.mode = "Running"
                                => ~OutOfBounds(o.bird, o.ground)

\* the end of a tick in which the jump key was polled, the body below its
\* start height and tilted up again
C17_Witness ==
    /\ mode = "Running"
    /\ op = "tick"
    /\ bird.time = 1
    /\ bird.speed = JUMP_SPEED
    /\ bird.height - bird.y = 2 * 11
    /\ bird.height > BIRD_Y
    /\ bird.angle = MAX_ROTATION

\* --------------------------------------------------------------------------
\* The animation of a Bird exercised on its own: a new body on which draw()
\* is called again and again, with jump() calls in between; neither changes
\* the angle, which stays at 0, above the glide angle.

\* number of draw() calls followed on one body
MaxDraws == 45

\* constructor arguments: main()'s and the unit test's
BirdArgs == {<<BIRD_X, BIRD_Y>>, <<100, 2 * 200>>}

AnimInit ==
    \E a \in BirdArgs, h \in Heights :
        /\ mode = "Running"
        /\ op = "Bird"
        /\ bird = NewBird(a[1], a[2])
        /\ birds = <<"bird">>
        /\ ground = NewGround(GROUND_Y)
        /\ pipes = <<NewPipe(0, SEED_X, h)>>
        /\ score = 0
        /\ created = 1
        /\ passLog = <<>>
        /\ reported = -1
        /\ cause = "none"
        /\ depth = 1
        /\ trial = [arg |-> a[2], n |-> 0]
        /\ phases = <<>>
        /\ off = 0

\* bird.draw(screen)
AnimDraw ==
    /\ trial.n < MaxDraws
    /\ bird' = Draw(bird)
    /\ op' = "draw"
    /\ trial' = [trial EXCEPT !.n = @ + 1]
    /\ UNCHANGED <<mode, birds, ground, pipes, score, created, passLog,
                   reported, cause, depth, phases, off>>

\* bird.jump()
AnimJump ==
    /\ bird' = Jump(bird)
    /\ op' = "jump"
    /\ UNCHANGED <<mode, birds, ground, pipes, score, created, passLog,
                   reported, cause, depth, trial, phases, off>>

AnimNext == AnimDraw \/ AnimJump

AnimSpec == AnimInit /\ [][AnimNext]_vars

\* the image indices of the flap cycle
Cycle == <<0, 1, 2, 1>>

\* C18: animation cycle.  While the angle is above -80, successive draw()
\* calls on a new body show the frames 0, 1, 2, 1 in turn, each for exactly
\* 5 consecutive ticks, with period 20: the frame of animation tick n is
\* Cycle[(n div 5) mod 4], the new body's own frame 0 being tick 0.
C18_AnimationCycle ==
    (op = "draw" /\ bird.angle > GLIDE_ANGLE)
        => bird.image = Cycle[((trial.n \div 5) % 4) + 1]

\* C19: retirement timing.  Over a tick, an obstacle of the stream is
\* removed exactly when its advanced x plus the pipe image width is below 0
\* (so at the end of the first such tick, none being in the stream with
\* x + width < 0 at the start of a tick), and is in the stream after the
\* tick otherwise; in a tick that does not end the session every obstacle
\* that is kept has been advanced exactly once (by 5).
C19_RetirementTiming ==
    [][ IsTick
        => \A i \in DOMAIN pipes :
               LET nx == pipes[i].x - 5
                   kept == { j \in DOMAIN pipes' : pipes'[j].id = pipes[i].id }
               IN  /\ pipes[i].x + PipeImgW >= 0
                   /\ IF nx + PipeImgW < 0
                      THEN kept = {}
                      ELSE /\ Cardinality(kept) = 1
                           /\ mode' = "Running"
                                  => \A j \in kept : pipes'[j].x = nx ]_vars

\* C20: restart does not nest.  The restart after a game-over screen is made
\* by an outer loop, so the depth of game-loop invocations on the call stack
\* is the same (one) after any number of ended sessions.
C20_NoNesting ==
    mode # "Exited" => depth = 1

\* C21: no overlapping frame survives.  In every state at the end of a tick
\* in which the session is still Running (the state that is rendered), the
\* body's rectangle overlaps neither the top nor the bottom pipe of any
\* obstacle of the stream at the obstacle's current, already advanced
\* position.
C21_NoOverlapRendered ==
    mode = "Running" => \A i \in DOMAIN pipes : ~Collide(pipes[i], bird)

\* the obstacles of ps that have not been passed
Ahead(ps) == { i \in DOMAIN ps : ~ps[i].passed }

\* C22: exactly one target ahead.  In the initial state and at the end of
\* every tick of a Running session exactly one obstacle of the stream has
\* passed = false and it is the last element of the stream; every obstacle a
\* tick retires has passed = true.
C22_OneTargetAhead ==
    [][ /\ mode = "Running" => Ahead(pipes) = {Len(pipes)}
        /\ mode' = "Running" => Ahead(pipes') = {Len(pipes')}
        /\ IsTick
               => \A i \in DOMAIN pipes :
                      pipes[i].id \notin Ids(pipes') => pipes[i].passed ]_vars

\* the end of the tick that retired the seed obstacle, which had been passed
\* and scored 65 ticks before
C22_Witness ==
    /\ mode = "Running"
    /\ op = "tick"
    /\ Ids(pipes) = {1}
    /\ Ahead(pipes) = {1}
    /\ passLog = <<0>>
    /\ score = 1

\* the distance in x between the two obstacles of a stream of two
Apart(ps) == ps[2].x - ps[1].x

\* C23: bounded stream.  With body x 230, seed x 700, spawn x 600, scroll
\* speed 5 and pipe image width 104, the stream never holds more than 2
\* obstacles at the end of any tick, and whenever it holds 2 they are
\* exactly 380 apart in x.
C23_BoundedStream ==
    /\ Len(pipes) <= 2
    /\ Len(pipes) = 2 => Apart(pipes) = 380

=============================================================================
